---- MODULE Spec2Model ----
(***************************************************************************)
(* Agent controller of xk6-disruptor (pkg/disruptors/controller.go).       *)
(*                                                                         *)
(* The controller is built once for a namespace, a list of target pods and *)
(* a timeout.  InjectDisruptorAgent and Visit/ExecCommand fan one          *)
(* goroutine out per target, join them on a sync.WaitGroup and fold the    *)
(* goroutines' errors through a buffered channel.  The PodHelper (package  *)
(* pkg/kubernetes/helpers) is not part of the sources at hand; its two     *)
(* operations are modelled from their documented interface.                *)
(***************************************************************************)
EXTENDS Integers, Sequences, FiniteSets, TLC

\* ------------------------------------------------------------------------
\* Bounds of the model
\* ------------------------------------------------------------------------

\* longest target list given to NewAgentController
MaxTargets == 2

\* number of InjectDisruptorAgent / Visit / ExecCommand calls in a behaviour
MaxCalls == 2

\* longest list of option functions given to BuildE2eCluster
MaxOptions == 2

\* longest list of post-install functions of an E2eClusterConfig
MaxPostInstall == 2

\* most lines of a go.mod file read by depsync
MaxLines == 2

\* ------------------------------------------------------------------------
\* Values
\* ------------------------------------------------------------------------

Pods == {"pod1", "pod2"}

Namespaces == {"test-ns", "default"}

\* time.Duration values handed to NewAgentController.  Durations are counted
\* in seconds here: 30 * time.Second does not fit TLC's integers when
\* counted in nanoseconds, and the code only compares a duration with 0.
TimeoutInputs == {-2, -1, 0, 1, 2}

\* 30 * time.Second
DefaultTimeout == 30

\* the name of the ephemeral container, as written in InjectDisruptorAgent
AgentContainerName == "xk6-agent"

\* the name of the container Visit executes in
ExecContainerName == "xk6-agent"

TargetLists == UNION {[1..n -> Pods] : n \in 0..MaxTargets}

\* the error value nil
Nil == [kind |-> "nil"]

\* stderr texts a failed remote execution may produce
Stderrs == {"error output", "command is already in execution"}

\* commands a caller may pass to ExecCommand
Commands == {<<"command">>, <<"stop">>}

\* the pod a visitor may have no command for
NoCommandPod == "pod1"

\* visiting functions a caller may pass to Visit: func(target string) []string
Visitors ==
    { [p \in Pods |-> <<"command">>],
      [p \in Pods |-> <<"command", p>>] }

\* a visiting function that fails for one pod: it has no command for it and
\* returns nil, the only way a function of this type has to tell so
FailingVisitor ==
    [p \in Pods |-> IF p = NoCommandPod THEN <<>> ELSE <<"command">>]

\* the context the caller gives NewAgentController, and one nobody cancels
CallerContext == "ctx"

BackgroundContext == "background"

VARIABLES
    c,          \* the agentController: namespace, targets, timeout
    argTimeout, \* the timeout argument NewAgentController was called with
    helper,     \* the PodHelper: the namespace it is bound to
    podExists,  \* cluster: whether the pod exists in the namespace
    podReady,   \* cluster: whether an attached container ever reports ready
    ephemeral,  \* cluster: per pod, the names of its ephemeral containers
    history,    \* command executor: per pod, the executions recorded, in order
    pc,         \* the calling goroutine: "idle" or "loop"
    op,         \* the method being (or last) called
    calls,      \* number of calls started so far
    visitor,    \* the visiting function of the current Visit
    idx,        \* number of targets the for loop has iterated over
    wg,         \* the sync.WaitGroup counter of the current call
    errors,     \* the errors channel of the current call
    tasks,      \* the goroutines of the current call, one per loop iteration
    ret,        \* the value returned by the call, nil while it runs
    argTargets, \* the target list NewAgentController was called with
    ctxDone,    \* whether the caller has cancelled the controller's context
    out,        \* the list the last Targets() call returned
    visited,    \* the pods the visitor was called with in the current Visit
    build,      \* the BuildE2eCluster call of the e2e test helpers
    depsync     \* the run of the depsync script

vars == <<c, argTimeout, helper, podExists, podReady, ephemeral, history,
          pc, op, calls, visitor, idx, wg, errors, tasks, ret,
          argTargets, ctxDone, out, visited, build, depsync>>

\* what no method of the controller changes: its configuration, the cluster
\* facts it meets, and the helpers of the repository that run apart from it
env == <<c, argTimeout, argTargets, helper, podExists, podReady, build,
         depsync>>

\* what only the caller changes, the context and the result of Targets(),
\* and the calls the visitor has received
aux == <<ctxDone, out, visited>>

\* ------------------------------------------------------------------------
\* NewAgentController
\* ------------------------------------------------------------------------

\* the two tests of the timeout in the opposite order
NormalizeTimeoutSwapped(timeout) ==
    LET t1 == IF timeout < 0 THEN 0 ELSE timeout
        t2 == IF t1 = 0 THEN DefaultTimeout ELSE t1
    IN  t2

\* if timeout == 0 { timeout = 30 * time.Second }
\* if timeout < 0 { timeout = 0 }
NormalizeTimeout(timeout) ==
    LET t1 == IF timeout = 0 THEN DefaultTimeout ELSE timeout
        t2 == IF t1 < 0 THEN 0 ELSE t1
    IN  t2

NewAgentController(ctx, namespace, targets, timeout) ==
    [ctx       |-> ctx,
     namespace |-> namespace,
     targets   |-> targets,
     timeout   |-> NormalizeTimeout(timeout)]

\* ------------------------------------------------------------------------
\* Channels and goroutines
\* ------------------------------------------------------------------------

\* a channel without a buffer
MakeChanUnbuffered(n) == [buf |-> <<>>, cap |-> 0]

\* a channel kept from the previous call instead of a new one
MakeChanReused(n) == [errors EXCEPT !.cap = n]

\* make(chan error, n)
MakeChan(n) == [buf |-> <<>>, cap |-> n]

\* a goroutine slot of the current call before the loop reaches it
\* (calls counts the PodHelper calls it issued; fresh tells whether its
\* attach call added a container to the pod; hit whether its PodHelper call
\* was running when the context was cancelled)
NoTask == [pc |-> "none", pod |-> "", cmd |-> <<>>, calls |-> 0,
           req |-> Nil, err |-> Nil, stderr |-> "", fresh |-> FALSE,
           hit |-> FALSE]

NoTasks == [i \in 1..Len(c.targets) |-> NoTask]

\* a wait that returns at once
WgWaitSkipped == TRUE

\* wg.Wait() returns when the counter is zero
WgWait == wg = 0

\* a select that always takes its default branch
SelectDefault(ch) == Nil

\* select { case err := <-errors: return err; default: return nil }
SelectResult(ch) == IF Len(ch.buf) > 0 THEN Head(ch.buf) ELSE Nil

SelectChan(ch) ==
    IF Len(ch.buf) > 0 THEN [ch EXCEPT !.buf = Tail(ch.buf)] ELSE ch

Init ==
    /\ \E ns \in Namespaces, ts \in TargetLists, t \in TimeoutInputs :
          /\ c = NewAgentController(CallerContext, ns, ts, t)
          /\ argTimeout = t
          /\ argTargets = ts
          /\ helper = [namespace |-> ns]
    /\ podExists \in [Pods -> BOOLEAN]
    /\ podReady \in [Pods -> BOOLEAN]
    /\ ephemeral = [p \in Pods |-> <<>>]
    /\ history = [p \in Pods |-> <<>>]
    /\ pc = "idle"
    /\ op = "none"
    /\ calls = 0
    /\ visitor = [p \in Pods |-> <<>>]
    /\ idx = 0
    /\ wg = 0
    /\ errors = [buf |-> <<>>, cap |-> 0]
    /\ tasks = NoTasks
    /\ ret = Nil
    /\ ctxDone = FALSE
    /\ out = <<>>
    /\ visited = <<>>
    /\ build = [pc |-> "idle", ops |-> <<>>, config |-> <<>>, i |-> 0,
                exists |-> FALSE, log |-> <<>>, cluster |-> "nil", err |-> "nil"]
    /\ depsync = [pc |-> "idle",
                  own |-> [lines |-> <<>>, newline |-> FALSE],
                  core |-> [lines |-> <<>>, newline |-> FALSE],
                  ownDeps |-> <<>>, coreDeps |-> <<>>,
                  mismatched |-> <<>>, stdout |-> <<>>]

\* ------------------------------------------------------------------------
\* PodHelper (pkg/kubernetes/helpers), modelled from its interface
\* ------------------------------------------------------------------------

HasContainer(pod, name) ==
    \E k \in 1..Len(ephemeral[pod]) : ephemeral[pod][k].Name = name

\* AttachEphemeralContainer(ctx, podName, container, options): the error it
\* returns.  A container that is already there is a success when
\* IgnoreIfExists is set; a new container is waited for unless Timeout is 0.
AttachError(pod, container, options) ==
    IF ~podExists[pod] THEN "pod not found"
    ELSE IF HasContainer(pod, container.Name)
         THEN IF options.IgnoreIfExists THEN "nil"
              ELSE "ephemeral container already exists"
    ELSE IF options.Timeout = 0 THEN "nil"
    ELSE IF podReady[pod] THEN "nil"
    ELSE "timeout waiting for container to be ready"

\* whether context ctx is done
Cancelled(ctx) == ctx = CallerContext /\ ctxDone

\* AttachEphemeralContainer: the pod's ephemeral containers afterwards
AttachEffect(pod, container, options) ==
    IF podExists[pod] /\ ~HasContainer(pod, container.Name)
    THEN [ephemeral EXCEPT ![pod] = Append(@, container)]
    ELSE ephemeral

\* the Command the executor records for Exec(pod, container, command, stdin)
ExecRecord(pod, container, command, stdin) ==
    [Pod |-> pod, Container |-> container, Namespace |-> helper.namespace,
     Command |-> command, Stdin |-> stdin]

\* ------------------------------------------------------------------------
\* InjectDisruptorAgent
\* ------------------------------------------------------------------------

\* a container that may not run as root
AgentContainerNonRoot ==
    [Name         |-> AgentContainerName,
     Capabilities |-> <<"NET_ADMIN">>,
     RunAsUser    |-> 0,
     RunAsGroup   |-> 0,
     RunAsNonRoot |-> TRUE,
     TTY          |-> TRUE,
     Stdin        |-> TRUE]

\* agentContainer := corev1.EphemeralContainer{...}
AgentContainer ==
    [Name         |-> AgentContainerName,
     Capabilities |-> <<"NET_ADMIN">>,
     RunAsUser    |-> 0,
     RunAsGroup   |-> 0,
     RunAsNonRoot |-> FALSE,
     TTY          |-> TRUE,
     Stdin        |-> TRUE]

\* the options with the timeout argument passed on as it was given
AttachOptionsRawTimeout == [Timeout |-> argTimeout, IgnoreIfExists |-> TRUE]

\* the options without a timeout
AttachOptionsNoTimeout == [Timeout |-> 0, IgnoreIfExists |-> TRUE]

\* the options without IgnoreIfExists
AttachOptionsStrict == [Timeout |-> c.timeout, IgnoreIfExists |-> FALSE]

\* a context of its own instead of the controller's
AttachContextBackground == BackgroundContext

\* the first argument of AttachEphemeralContainer: c.ctx
AttachContext == c.ctx

\* helpers.AttachOptions{Timeout: c.timeout, IgnoreIfExists: true}
AttachOptions == [Timeout |-> c.timeout, IgnoreIfExists |-> TRUE]

\* the call: var wg sync.WaitGroup; errors := make(chan error, len(c.targets))
InjectDisruptorAgent ==
    /\ pc = "idle"
    /\ calls < MaxCalls
    /\ pc' = "loop"
    /\ op' = "inject"
    /\ calls' = calls + 1
    /\ idx' = 0
    /\ wg' = 0
    /\ errors' = MakeChan(Len(c.targets))
    /\ tasks' = NoTasks
    /\ ret' = Nil
    /\ UNCHANGED <<env, aux, ephemeral, history, visitor>>

\* one iteration of for _, pod := range c.targets: wg.Add(1); go func(pod)
InjectSpawn ==
    /\ pc = "loop"
    /\ op = "inject"
    /\ idx < Len(c.targets)
    /\ idx' = idx + 1
    /\ wg' = wg + 1
    /\ tasks' = [tasks EXCEPT ![idx + 1] =
                    [NoTask EXCEPT !.pc = "spawned", !.pod = c.targets[idx + 1]]]
    /\ UNCHANGED <<env, aux, ephemeral, history, pc, op, calls, visitor, errors, ret>>

\* the goroutine issues c.helper.AttachEphemeralContainer(...)
AttachCall(i) ==
    /\ op = "inject"
    /\ tasks[i].pc = "spawned"
    /\ tasks' = [tasks EXCEPT ![i].pc = "attaching",
                              ![i].calls = @ + 1,
                              ![i].req = [Ctx |-> AttachContext,
                                          Pod |-> tasks[i].pod,
                                          Container |-> AgentContainer,
                                          Options |-> AttachOptions]]
    /\ UNCHANGED <<env, aux, ephemeral, history, pc, op, calls, visitor, idx, wg,
                   errors, ret>>

\* AttachEphemeralContainer returns: err := ...  With its context done the
\* call fails with the context's error, having attached the container or not.
AttachReturn(i) ==
    /\ op = "inject"
    /\ tasks[i].pc = "attaching"
    /\ LET r == tasks[i].req
           e == IF Cancelled(r.Ctx) THEN "context canceled"
                ELSE AttachError(r.Pod, r.Container, r.Options)
       IN  /\ \/ ephemeral' = AttachEffect(r.Pod, r.Container, r.Options)
              \/ Cancelled(r.Ctx) /\ ephemeral' = ephemeral
           /\ tasks' = [tasks EXCEPT
                  ![i].pc = "returned",
                  ![i].fresh = ephemeral' # ephemeral,
                  ![i].err = IF e = "nil" THEN Nil
                             ELSE [kind |-> e, pod |-> r.Pod,
                                   call |-> calls, task |-> i]]
    /\ UNCHANGED <<env, aux, history, pc, op, calls, visitor, idx, wg, errors, ret>>

\* if err != nil { errors <- err }: the send blocks while the buffer is full
InjectSend(i) ==
    /\ op = "inject"
    /\ tasks[i].pc = "returned"
    /\ tasks[i].err # Nil
    /\ Len(errors.buf) < errors.cap
    /\ errors' = [errors EXCEPT !.buf = Append(@, tasks[i].err)]
    /\ tasks' = [tasks EXCEPT ![i].pc = "sent"]
    /\ UNCHANGED <<env, aux, ephemeral, history, pc, op, calls, visitor, idx, wg, ret>>

\* defer wg.Done()
InjectDone(i) ==
    /\ op = "inject"
    /\ \/ tasks[i].pc = "returned" /\ tasks[i].err = Nil
       \/ tasks[i].pc = "sent"
    /\ wg' = wg - 1
    /\ tasks' = [tasks EXCEPT ![i].pc = "done"]
    /\ UNCHANGED <<env, aux, ephemeral, history, pc, op, calls, visitor, idx, errors,
                   ret>>

\* wg.Wait(); select { case err := <-errors: return err; default: return nil }
InjectReturn ==
    /\ pc = "loop"
    /\ op = "inject"
    /\ idx = Len(c.targets)
    /\ WgWait
    /\ ret' = SelectResult(errors)
    /\ errors' = SelectChan(errors)
    /\ pc' = "idle"
    /\ UNCHANGED <<env, aux, ephemeral, history, op, calls, visitor, idx, wg, tasks>>

\* ------------------------------------------------------------------------
\* Visit and ExecCommand
\* ------------------------------------------------------------------------

\* the error wrapped without the stderr text
ErrorfNoStderr(err, stderr) ==
    [kind  |-> "error invoking agent",
     msg   |-> <<"error invoking agent: ", err.kind>>,
     wraps |-> err]

\* fmt.Errorf("error invoking agent: %w \n%s", err, string(stderr)): the
\* message is kept as its pieces, the wrapped error beside it
Errorf(err, stderr) ==
    [kind  |-> "error invoking agent",
     msg   |-> <<"error invoking agent: ", err.kind, " \n", stderr>>,
     wraps |-> err]

\* whether the message of error e contains the text s
Contains(e, s) ==
    /\ "msg" \in DOMAIN e
    /\ \E k \in 1..Len(e.msg) : e.msg[k] = s

\* an Exec that runs under the controller's context
ExecContextCaller == c.ctx

\* c.helper.Exec(pod, "xk6-agent", cmd, []byte{}) is given no context: the
\* execution runs under one that nobody cancels
ExecContext == BackgroundContext

\* the results c.helper.Exec may give goroutine i: success, or an error with
\* the stderr captured from the failed execution; an execution whose context
\* is done fails with the context's error
ExecResults(i) ==
    IF Cancelled(ExecContext)
    THEN {[err |-> [kind |-> "context canceled", pod |-> tasks[i].pod,
                    call |-> calls, task |-> i],
           stderr |-> ""]}
    ELSE {[err |-> Nil, stderr |-> ""]} \cup
         {[err |-> [kind |-> "exec failed", pod |-> tasks[i].pod,
                    call |-> calls, task |-> i],
           stderr |-> s] : s \in Stderrs}

\* the body of Visit up to the loop, for the visiting function v called as m
VisitBegin(v, m) ==
    /\ pc = "idle"
    /\ calls < MaxCalls
    /\ pc' = "loop"
    /\ op' = m
    /\ visitor' = v
    /\ calls' = calls + 1
    /\ idx' = 0
    /\ wg' = 0
    /\ errors' = MakeChan(Len(c.targets))
    /\ tasks' = NoTasks
    /\ ret' = Nil
    /\ visited' = <<>>
    /\ UNCHANGED <<env, ctxDone, out, ephemeral, history>>

\* c.Visit(visitor)
Visit == \E v \in Visitors : VisitBegin(v, "visit")

\* c.Visit(visitor) with the visiting function that fails for one pod
VisitFailing == VisitBegin(FailingVisitor, "visit")

\* an ExecCommand whose visiting function adds the target to the command
ExecCommandPerTarget ==
    \E cmd \in Commands : VisitBegin([p \in Pods |-> Append(cmd, p)], "exec")

\* c.ExecCommand(cmd): return c.Visit(func(string) []string { return cmd })
ExecCommand == \E cmd \in Commands : VisitBegin([p \in Pods |-> cmd], "exec")

InVisit == op \in {"visit", "exec"}

\* one iteration of the loop: cmd := visitor(pod); wg.Add(1); go func(pod)
VisitSpawn ==
    /\ pc = "loop"
    /\ InVisit
    /\ idx < Len(c.targets)
    /\ idx' = idx + 1
    /\ wg' = wg + 1
    /\ tasks' = [tasks EXCEPT ![idx + 1] =
                    [NoTask EXCEPT !.pc = "spawned",
                                   !.pod = c.targets[idx + 1],
                                   !.cmd = visitor[c.targets[idx + 1]]]]
    /\ visited' = Append(visited, c.targets[idx + 1])
    /\ UNCHANGED <<env, ctxDone, out, ephemeral, history, pc, op, calls, visitor,
                   errors, ret>>

\* a cmd declared once before the loop and shared by the goroutines: it
\* holds what the visitor returned last
CapturedCmdShared(i) == visitor[c.targets[idx]]

\* the cmd goroutine i's closure refers to: cmd := visitor(pod) declares a
\* variable of its own in every iteration
CapturedCmd(i) == tasks[i].cmd

\* the goroutine issues c.helper.Exec(pod, "xk6-agent", cmd, []byte{}); the
\* executor records the command
ExecCall(i) ==
    /\ InVisit
    /\ tasks[i].pc = "spawned"
    /\ LET r == ExecRecord(tasks[i].pod, ExecContainerName, CapturedCmd(i), <<>>)
       IN  /\ tasks' = [tasks EXCEPT ![i].pc = "executing",
                                     ![i].calls = @ + 1,
                                     ![i].req = r]
           /\ history' = [history EXCEPT ![tasks[i].pod] = Append(@, r)]
    /\ UNCHANGED <<env, aux, ephemeral, pc, op, calls, visitor, idx, wg, errors, ret>>

\* Exec returns: _, stderr, err := ...
ExecReturn(i) ==
    /\ InVisit
    /\ tasks[i].pc = "executing"
    /\ \E r \in ExecResults(i) :
          tasks' = [tasks EXCEPT ![i].pc = "returned",
                                 ![i].err = r.err,
                                 ![i].stderr = r.stderr]
    /\ UNCHANGED <<env, aux, ephemeral, history, pc, op, calls, visitor, idx, wg,
                   errors, ret>>

\* if err != nil { errors <- fmt.Errorf(...) }
VisitSend(i) ==
    /\ InVisit
    /\ tasks[i].pc = "returned"
    /\ tasks[i].err # Nil
    /\ Len(errors.buf) < errors.cap
    /\ errors' = [errors EXCEPT
                     !.buf = Append(@, Errorf(tasks[i].err, tasks[i].stderr))]
    /\ tasks' = [tasks EXCEPT ![i].pc = "sent"]
    /\ UNCHANGED <<env, aux, ephemeral, history, pc, op, calls, visitor, idx, wg, ret>>

\* wg.Done()
VisitDone(i) ==
    /\ InVisit
    /\ \/ tasks[i].pc = "returned" /\ tasks[i].err = Nil
       \/ tasks[i].pc = "sent"
    /\ wg' = wg - 1
    /\ tasks' = [tasks EXCEPT ![i].pc = "done"]
    /\ UNCHANGED <<env, aux, ephemeral, history, pc, op, calls, visitor, idx, errors,
                   ret>>

\* wg.Wait(); select { case err := <-errors: return err; default: return nil }
VisitReturn ==
    /\ pc = "loop"
    /\ InVisit
    /\ idx = Len(c.targets)
    /\ WgWait
    /\ ret' = SelectResult(errors)
    /\ errors' = SelectChan(errors)
    /\ pc' = "idle"
    /\ UNCHANGED <<env, aux, ephemeral, history, op, calls, visitor, idx, wg, tasks>>

\* ------------------------------------------------------------------------
\* Targets, and the caller's context
\* ------------------------------------------------------------------------

\* a list without the entries that repeat an earlier one
RECURSIVE Distinct(_)
Distinct(ts) ==
    IF ts = <<>> THEN <<>>
    ELSE LET front == Distinct(SubSeq(ts, 1, Len(ts) - 1))
             last  == ts[Len(ts)]
         IN  IF \E k \in 1..Len(front) : front[k] = last
             THEN front ELSE Append(front, last)

\* the targets without the repeated ones
TargetsResultDistinct == Distinct(c.targets)

\* return c.targets, nil
TargetsResult == c.targets

\* c.Targets()
Targets ==
    /\ pc = "idle"
    /\ calls < MaxCalls
    /\ op' = "targets"
    /\ calls' = calls + 1
    /\ out' = TargetsResult
    /\ ret' = Nil
    /\ UNCHANGED <<env, ctxDone, visited, ephemeral, history, pc, visitor, idx,
                   wg, errors, tasks>>

\* the caller cancels the context it gave NewAgentController
Cancel ==
    /\ ~ctxDone
    /\ ctxDone' = TRUE
    /\ tasks' = [i \in 1..Len(c.targets) |->
                    IF tasks[i].pc \in {"attaching", "executing"}
                    THEN [tasks[i] EXCEPT !.hit = TRUE] ELSE tasks[i]]
    /\ UNCHANGED <<env, out, visited, ephemeral, history, pc, op, calls, visitor,
                   idx, wg, errors, ret>>

\* ------------------------------------------------------------------------
\* BuildE2eCluster (pkg/testutils/e2e/cluster)
\* ------------------------------------------------------------------------

\* 60 * time.Second, the Wait of DefaultE2eClusterConfig, in seconds
DefaultWait == 60

\* post-install functions a configuration may list
PostInstalls == {"InstallContourIngress", "addon"}

PostInstallLists == UNION {[1..n -> PostInstalls] : n \in 0..MaxPostInstall}

\* DefaultE2eClusterConfig(), with the post-install functions of the test
E2eClusterConfig(post) ==
    [Name |-> "e2e-tests", Wait |-> DefaultWait, PostInstall |-> post]

\* option functions: WithName and WithWait as the package defines them, and
\* one that returns an error, as the type E2eClusterOption allows
E2eClusterOptions ==
    {[kind |-> "WithName", name |-> "other"],
     [kind |-> "WithWait", wait |-> 0],
     [kind |-> "failing"]}

OptionLists == UNION {[1..n -> E2eClusterOptions] : n \in 0..MaxOptions}

\* the configuration an option function returns
ApplyOption(option, config) ==
    IF option.kind = "WithName" THEN [config EXCEPT !.Name = option.name]
    ELSE IF option.kind = "WithWait" THEN [config EXCEPT !.Wait = option.wait]
    ELSE config

\* a failed post-install function that is passed over
PostInstallFailedContinue(b, fn, deleted) ==
    [b EXCEPT !.i = @ + 1,
              !.log = Append(@, [ev |-> "postInstall", fn |-> fn, ok |-> FALSE])]

\* if err != nil { _ = cluster.Delete(); return nil, err }: Delete may fail,
\* and its error is dropped; deleted tells whether the cluster is gone
PostInstallFailed(b, fn, deleted) ==
    [b EXCEPT !.pc = "done",
              !.exists = ~deleted,
              !.log = @ \o <<[ev |-> "postInstall", fn |-> fn, ok |-> FALSE],
                             [ev |-> "Delete"]>>,
              !.cluster = "nil",
              !.err = fn]

\* the call, and the loop over the option functions up to the first that
\* fails: e2eConfig, err = option(e2eConfig)
BuildE2eCluster ==
    /\ build.pc = "idle"
    /\ \E post \in PostInstallLists, ops \in OptionLists :
          build' = [build EXCEPT !.pc = "options",
                                 !.ops = ops,
                                 !.config = E2eClusterConfig(post)]
    /\ UNCHANGED <<c, argTimeout, argTargets, helper, podExists, podReady,
                   depsync, aux, ephemeral, history, pc, op, calls, visitor, idx, wg,
                   errors, tasks, ret>>

BuildOption ==
    /\ build.pc = "options"
    /\ build.i < Len(build.ops)
    /\ LET option == build.ops[build.i + 1]
       IN  build' =
              IF option.kind = "failing"
              THEN [build EXCEPT !.pc = "done", !.cluster = "nil",
                                 !.err = "option failed"]
              ELSE [build EXCEPT !.i = @ + 1,
                                 !.config = ApplyOption(option, @)]
    /\ UNCHANGED <<c, argTimeout, argTargets, helper, podExists, podReady,
                   depsync, aux, ephemeral, history, pc, op, calls, visitor, idx, wg,
                   errors, tasks, ret>>

\* config, err := cluster.NewConfig(...); c, err := config.Create()
BuildCreate ==
    /\ build.pc = "options"
    /\ build.i = Len(build.ops)
    /\ \E r \in {"created", "failed to create cluster config",
                  "failed to create cluster"} :
          build' =
              IF r = "created"
              THEN [build EXCEPT !.pc = "postInstall", !.i = 0,
                                 !.exists = TRUE,
                                 !.log = Append(@, [ev |-> "Create"])]
              ELSE [build EXCEPT !.pc = "done", !.cluster = "nil", !.err = r]
    /\ UNCHANGED <<c, argTimeout, argTargets, helper, podExists, podReady,
                   depsync, aux, ephemeral, history, pc, op, calls, visitor, idx, wg,
                   errors, tasks, ret>>

\* one iteration of for _, postInstall := range e2eConfig.PostInstall
BuildPostInstall ==
    /\ build.pc = "postInstall"
    /\ build.i < Len(build.config.PostInstall)
    /\ LET fn == build.config.PostInstall[build.i + 1]
       IN  \/ build' = [build EXCEPT
                  !.i = @ + 1,
                  !.log = Append(@, [ev |-> "postInstall", fn |-> fn,
                                     ok |-> TRUE])]
           \/ \E deleted \in BOOLEAN :
                  build' = PostInstallFailed(build, fn, deleted)
    /\ UNCHANGED <<c, argTimeout, argTargets, helper, podExists, podReady,
                   depsync, aux, ephemeral, history, pc, op, calls, visitor, idx, wg,
                   errors, tasks, ret>>

\* time.Sleep(e2eConfig.Wait); return cluster, nil
BuildReturn ==
    /\ build.pc = "postInstall"
    /\ build.i = Len(build.config.PostInstall)
    /\ build' = [build EXCEPT
          !.pc = "done",
          !.log = Append(@, [ev |-> "Sleep", wait |-> build.config.Wait]),
          !.cluster = build.config.Name,
          !.err = "nil"]
    /\ UNCHANGED <<c, argTimeout, argTargets, helper, podExists, podReady,
                   depsync, aux, ephemeral, history, pc, op, calls, visitor, idx, wg,
                   errors, tasks, ret>>

\* ------------------------------------------------------------------------
\* depsync, the script that compares the dependencies with those of k6 core
\* ------------------------------------------------------------------------

Modules == {"a", "b"}

Versions == {"v1", "v2"}

\* the lines of a go.mod: a requirement inside a block, "\t" module " "
\* version, or a line that does not start with a tab.  A line is kept as
\* the pieces strings.Split(line, " ") cuts it into, the tab apart.
GoModLines ==
    {[tab |-> TRUE, pieces |-> <<m, v>>] : m \in Modules, v \in Versions}
    \cup {[tab |-> FALSE, pieces |-> <<")">>]}

\* a file: its lines, and whether the last of them ends with a newline
GoModFiles ==
    {f \in [lines : UNION {[1..n -> GoModLines] : n \in 0..MaxLines},
            newline : BOOLEAN] : f.lines # <<>> \/ ~f.newline}

\* deps[key] = value on a map kept as a function on its keys
MapPut(deps, key, value) ==
    [k \in DOMAIN deps \cup {key} |-> IF k = key THEN value ELSE deps[k]]

\* the body of the loop of dependencies for a line ReadString returned
\* without error
ReadLine(deps, line) ==
    IF ~line.tab THEN deps
    ELSE MapPut(deps, line.pieces[1], line.pieces[2])

RECURSIVE ReadLines(_, _)
ReadLines(deps, lines) ==
    IF lines = <<>> THEN deps
    ELSE ReadLines(ReadLine(deps, Head(lines)), Tail(lines))

\* a reader that also handles the line ReadString returns along with io.EOF
DependenciesAllLines(file) == ReadLines(<<>>, file.lines)

\* dependencies(reader): buf.ReadString('\n') returns every line that ends
\* with a newline without error; what follows the last newline comes with
\* io.EOF, and the loop returns on io.EOF before it looks at the line
Dependencies(file) ==
    ReadLines(<<>>, IF file.newline THEN file.lines
                    ELSE SubSeq(file.lines, 1, Len(file.lines) - 1))

\* fmt.Sprintf("%s@%s", dep, coreVersion), kept as its pieces
Sprintf(dep, version) == <<dep, "@", version>>

\* the dependencies main appends to mismatched
Mismatches(ownDeps, coreDeps) ==
    {dep \in DOMAIN ownDeps :
        dep \in DOMAIN coreDeps /\ ownDeps[dep] # coreDeps[dep]}

\* the orders for dep := range ownDeps may visit a set of keys in
Orders(keys) ==
    {o \in [1..Cardinality(keys) -> keys] :
        \A i, j \in 1..Cardinality(keys) : i # j => o[i] # o[j]}

\* the order of strings on the module paths of the model
Rank(dep) == IF dep = "a" THEN 1 ELSE 2

\* x sorts before y: the entries differ in the module path
StringLess(x, y) == Rank(x[1]) < Rank(y[1])

RECURSIVE Insert(_, _)
Insert(sorted, x) ==
    IF sorted = <<>> THEN <<x>>
    ELSE IF StringLess(x, Head(sorted)) THEN <<x>> \o sorted
    ELSE <<Head(sorted)>> \o Insert(Tail(sorted), x)

\* a list left in the order of the map iteration
SortStringsSkipped(list) == list

\* sort.Strings(mismatched)
RECURSIVE SortStrings(_)
SortStrings(list) ==
    IF list = <<>> THEN <<>>
    ELSE Insert(SortStrings(Tail(list)), Head(list))

\* main up to the comparison: the local go.mod and the go.mod of k6 core
\* are read
DepsyncRead ==
    /\ depsync.pc = "idle"
    /\ \E own \in GoModFiles, core \in GoModFiles :
          depsync' = [depsync EXCEPT !.pc = "compare",
                                     !.own = own,
                                     !.core = core,
                                     !.ownDeps = Dependencies(own),
                                     !.coreDeps = Dependencies(core)]
    /\ UNCHANGED <<c, argTimeout, argTargets, helper, podExists, podReady,
                   build, aux, ephemeral, history, pc, op, calls, visitor, idx,
                   wg, errors, tasks, ret>>

\* for dep, version := range ownDeps { ... mismatched = append(...) }
DepsyncCompare ==
    /\ depsync.pc = "compare"
    /\ \E o \in Orders(Mismatches(depsync.ownDeps, depsync.coreDeps)) :
          depsync' = [depsync EXCEPT
              !.pc = "emit",
              !.mismatched = [k \in DOMAIN o |->
                                 Sprintf(o[k], depsync.coreDeps[o[k]])]]
    /\ UNCHANGED <<c, argTimeout, argTargets, helper, podExists, podReady,
                   build, aux, ephemeral, history, pc, op, calls, visitor, idx,
                   wg, errors, tasks, ret>>

\* if len(mismatched) == 0 { return }; sort.Strings(mismatched);
\* fmt.Printf("go get %s\n", strings.Join(mismatched, " "))
DepsyncEmit ==
    /\ depsync.pc = "emit"
    /\ depsync' = [depsync EXCEPT
          !.pc = "done",
          !.stdout = IF Len(depsync.mismatched) = 0 THEN <<>>
                     ELSE <<[cmd |-> "go get",
                             args |-> SortStrings(depsync.mismatched)]>>]
    /\ UNCHANGED <<c, argTimeout, argTargets, helper, podExists, podReady,
                   build, aux, ephemeral, history, pc, op, calls, visitor, idx,
                   wg, errors, tasks, ret>>

Next ==
    \/ Targets
    \/ Cancel
    \/ InjectDisruptorAgent
    \/ InjectSpawn
    \/ \E i \in 1..Len(c.targets) : AttachCall(i)
    \/ \E i \in 1..Len(c.targets) : AttachReturn(i)
    \/ \E i \in 1..Len(c.targets) : InjectSend(i)
    \/ \E i \in 1..Len(c.targets) : InjectDone(i)
    \/ InjectReturn
    \/ Visit
    \/ VisitFailing
    \/ ExecCommand
    \/ VisitSpawn
    \/ \E i \in 1..Len(c.targets) : ExecCall(i)
    \/ \E i \in 1..Len(c.targets) : ExecReturn(i)
    \/ \E i \in 1..Len(c.targets) : VisitSend(i)
    \/ \E i \in 1..Len(c.targets) : VisitDone(i)
    \/ VisitReturn
    \/ BuildE2eCluster
    \/ BuildOption
    \/ BuildCreate
    \/ BuildPostInstall
    \/ BuildReturn
    \/ DepsyncRead
    \/ DepsyncCompare
    \/ DepsyncEmit

Spec == Init /\ [][Next]_vars

\* InjectDisruptorAgent alone, called up to MaxCalls times
NextInject ==
    \/ InjectDisruptorAgent
    \/ InjectSpawn
    \/ \E i \in 1..Len(c.targets) : AttachCall(i)
    \/ \E i \in 1..Len(c.targets) : AttachReturn(i)
    \/ \E i \in 1..Len(c.targets) : InjectSend(i)
    \/ \E i \in 1..Len(c.targets) : InjectDone(i)
    \/ InjectReturn

SpecInject == Init /\ [][NextInject]_vars

\* Visit and ExecCommand alone, called up to MaxCalls times.  They read
\* neither the timeout nor the pods' containers, which are held fixed.
InitVisit ==
    /\ Init
    /\ argTimeout = -1
    /\ podExists = [p \in Pods |-> TRUE]
    /\ podReady = [p \in Pods |-> FALSE]

NextVisit ==
    \/ Visit
    \/ ExecCommand
    \/ VisitSpawn
    \/ \E i \in 1..Len(c.targets) : ExecCall(i)
    \/ \E i \in 1..Len(c.targets) : ExecReturn(i)
    \/ \E i \in 1..Len(c.targets) : VisitSend(i)
    \/ \E i \in 1..Len(c.targets) : VisitDone(i)
    \/ VisitReturn

SpecVisit == InitVisit /\ [][NextVisit]_vars

\* Visit with the visiting function that fails for one pod
NextVisitFailing ==
    \/ VisitFailing
    \/ VisitSpawn
    \/ \E i \in 1..Len(c.targets) : ExecCall(i)
    \/ \E i \in 1..Len(c.targets) : ExecReturn(i)
    \/ \E i \in 1..Len(c.targets) : VisitSend(i)
    \/ \E i \in 1..Len(c.targets) : VisitDone(i)
    \/ VisitReturn

SpecVisitFailing == InitVisit /\ [][NextVisitFailing]_vars

\* every method of the controller, for a controller that waits for the
\* containers it attaches, whose pods exist and whose containers never report
\* readiness: an attach that adds a container fails, one that finds it
\* succeeds
InitMixed ==
    /\ Init
    /\ argTimeout = 1
    /\ c.namespace = "test-ns"
    /\ podExists = [p \in Pods |-> TRUE]
    /\ podReady = [p \in Pods |-> FALSE]

NextMixed ==
    \/ Targets
    \/ InjectDisruptorAgent
    \/ InjectSpawn
    \/ \E i \in 1..Len(c.targets) : AttachCall(i)
    \/ \E i \in 1..Len(c.targets) : AttachReturn(i)
    \/ \E i \in 1..Len(c.targets) : InjectSend(i)
    \/ \E i \in 1..Len(c.targets) : InjectDone(i)
    \/ InjectReturn
    \/ Visit
    \/ ExecCommand
    \/ VisitSpawn
    \/ \E i \in 1..Len(c.targets) : ExecCall(i)
    \/ \E i \in 1..Len(c.targets) : ExecReturn(i)
    \/ \E i \in 1..Len(c.targets) : VisitSend(i)
    \/ \E i \in 1..Len(c.targets) : VisitDone(i)
    \/ VisitReturn

SpecMixed == InitMixed /\ [][NextMixed]_vars

\* InjectDisruptorAgent while the caller may cancel the controller's context
NextCancelInject ==
    \/ Cancel
    \/ InjectDisruptorAgent
    \/ InjectSpawn
    \/ \E i \in 1..Len(c.targets) : AttachCall(i)
    \/ \E i \in 1..Len(c.targets) : AttachReturn(i)
    \/ \E i \in 1..Len(c.targets) : InjectSend(i)
    \/ \E i \in 1..Len(c.targets) : InjectDone(i)
    \/ InjectReturn

SpecCancelInject == InitMixed /\ [][NextCancelInject]_vars

\* Visit while the caller may cancel the controller's context (ExecCommand
\* is a Visit and runs the same steps), in one namespace
InitCancelVisit == InitVisit /\ c.namespace = "test-ns"

NextCancelVisit ==
    \/ Cancel
    \/ Visit
    \/ VisitSpawn
    \/ \E i \in 1..Len(c.targets) : ExecCall(i)
    \/ \E i \in 1..Len(c.targets) : ExecReturn(i)
    \/ \E i \in 1..Len(c.targets) : VisitSend(i)
    \/ \E i \in 1..Len(c.targets) : VisitDone(i)
    \/ VisitReturn

SpecCancelVisit == InitCancelVisit /\ [][NextCancelVisit]_vars

\* the steps of a call once it has begun: the loop, the goroutines, the
\* PodHelper calls coming back, the join and the select
CallSteps ==
    \/ InjectSpawn
    \/ \E i \in 1..Len(c.targets) : AttachCall(i)
    \/ \E i \in 1..Len(c.targets) : AttachReturn(i)
    \/ \E i \in 1..Len(c.targets) : InjectSend(i)
    \/ \E i \in 1..Len(c.targets) : InjectDone(i)
    \/ InjectReturn
    \/ VisitSpawn
    \/ \E i \in 1..Len(c.targets) : ExecCall(i)
    \/ \E i \in 1..Len(c.targets) : ExecReturn(i)
    \/ \E i \in 1..Len(c.targets) : VisitSend(i)
    \/ \E i \in 1..Len(c.targets) : VisitDone(i)
    \/ VisitReturn

\* InjectDisruptorAgent and Visit under a scheduler that runs every goroutine
\* that can run and a PodHelper whose calls come back: a step of the call
\* that stays possible is eventually taken
InitLive == InitMixed

NextLive ==
    \/ InjectDisruptorAgent
    \/ Visit
    \/ CallSteps

SpecLive == InitLive /\ [][NextLive]_vars /\ WF_vars(CallSteps)

\* BuildE2eCluster alone, beside a controller without targets
InitBuild == InitMixed /\ c.targets = <<>>

NextBuild ==
    \/ BuildE2eCluster
    \/ BuildOption
    \/ BuildCreate
    \/ BuildPostInstall
    \/ BuildReturn

SpecBuild == InitBuild /\ [][NextBuild]_vars

\* the depsync script alone
NextDepsync ==
    \/ DepsyncRead
    \/ DepsyncCompare
    \/ DepsyncEmit

SpecDepsync == InitBuild /\ [][NextDepsync]_vars

\* ------------------------------------------------------------------------
\* Properties
\* ------------------------------------------------------------------------

Entries == 1..Len(c.targets)

\* the call has returned to its caller
Returned == pc = "idle" /\ calls > 0

InjectReturned == Returned /\ op = "inject"

VisitReturned == Returned /\ InVisit

\* the goroutine's PodHelper call has been issued and has come back
Completed(i) == tasks[i].pc \in {"returned", "sent", "done"}

Failed(i) == tasks[i].err # Nil

\* the loop entries that name pod p
EntriesOf(p) == {i \in Entries : c.targets[i] = p}

\* C1: InjectDisruptorAgent issues exactly one attach call for every entry of
\* the target list, for the pod of that entry, whatever the other attach calls
\* return, never a second one, and it returns only after all of them completed.
C1_OneAttachPerTarget ==
    op = "inject" =>
        /\ \A i \in Entries : tasks[i].calls <= 1
        /\ Returned =>
              \A i \in Entries :
                  /\ tasks[i].calls = 1
                  /\ tasks[i].req.Pod = c.targets[i]
                  /\ Completed(i)

\* an injection over two targets has returned, one attach failed, one succeeded
C1_Witness ==
    /\ InjectReturned
    /\ Len(c.targets) = 2
    /\ Failed(1)
    /\ ~Failed(2)
    /\ tasks[2].calls = 1

\* C2: InjectDisruptorAgent returns nil exactly when every attach call of this
\* invocation succeeded; otherwise it returns the error of one of the attach
\* calls of this invocation that failed.
C2_InjectResult ==
    InjectReturned =>
        /\ (ret = Nil) <=> (\A i \in Entries : ~Failed(i))
        /\ ret # Nil =>
              \E i \in Entries :
                  /\ Failed(i)
                  /\ ret = tasks[i].err
                  /\ ret.call = calls

\* a second injection has returned an error while every attach of it failed
C2_Witness ==
    /\ InjectReturned
    /\ calls = 2
    /\ Len(c.targets) = 2
    /\ \A i \in Entries : Failed(i)
    /\ ret # Nil

\* the compensating command of the visitor in Test_VisitPod
CleanupCommand == <<"cleanup">>

\* number of records of sequence h that run the command cmd
RECURSIVE CountCommand(_, _)
CountCommand(h, cmd) ==
    IF h = <<>> THEN 0
    ELSE (IF Head(h).Command = cmd THEN 1 ELSE 0) + CountCommand(Tail(h), cmd)

\* number of goroutines of this call whose Exec on pod p failed
FailedOn(p) == Cardinality({i \in EntriesOf(p) : Failed(i)})

\* C3: in Visit, the Cleanup command is issued against a target's agent
\* container if and only if that target's Exec failed, and after that Exec:
\* when Visit has returned, every pod has one recorded Cleanup execution for
\* each of its failed Exec calls (in the first call: exactly as many), and
\* every recorded Cleanup execution comes after an Exec of the pod.
C3_CleanupIffExecFailed ==
    VisitReturned =>
        \A p \in Pods :
            /\ CountCommand(history[p], CleanupCommand) >= FailedOn(p)
            /\ calls = 1 =>
                  CountCommand(history[p], CleanupCommand) = FailedOn(p)
            /\ \A k \in 1..Len(history[p]) :
                  history[p][k].Command = CleanupCommand =>
                      \E j \in 1..(k - 1) :
                          history[p][j].Command # CleanupCommand

\* C4: the error Visit records for a target whose Exec failed wraps the
\* error Exec returned and carries the stderr of that same execution in its
\* message; a non-nil error returned by Visit is such an error of this call.
C4_ErrorCarriesStderr ==
    InVisit =>
        /\ \A k \in 1..Len(errors.buf) :
              \E i \in Entries :
                  /\ tasks[i].pc \in {"sent", "done"}
                  /\ Failed(i)
                  /\ errors.buf[k].wraps = tasks[i].err
                  /\ Contains(errors.buf[k], tasks[i].stderr)
        /\ (Returned /\ ret # Nil) =>
              \E i \in Entries :
                  /\ Failed(i)
                  /\ ret.wraps = tasks[i].err
                  /\ ret.wraps.call = calls
                  /\ Contains(ret, tasks[i].stderr)

\* Visit has returned the error of a failed Exec while another Exec of the
\* call failed with a different stderr
C4_Witness ==
    /\ VisitReturned
    /\ Len(c.targets) = 2
    /\ Failed(1)
    /\ Failed(2)
    /\ tasks[1].stderr # tasks[2].stderr
    /\ ret.wraps = tasks[2].err
    /\ Contains(ret, tasks[2].stderr)

C6_VisitResult ==
    VisitReturned =>
        /\ (ret = Nil) <=> (\A i \in Entries : ~Failed(i))
        /\ ret # Nil =>
              \E i \in Entries :
                  /\ Failed(i)
                  /\ ret = Errorf(tasks[i].err, tasks[i].stderr)
                  /\ tasks[i].err.call = calls

\* a second Visit has returned an error while every Exec of it failed
C6_Witness ==
    /\ VisitReturned
    /\ calls = 2
    /\ Len(c.targets) = 2
    /\ \A i \in Entries : Failed(i)
    /\ ret # Nil

\* the attach requests issued so far in the current call
Requests == {tasks[i].req : i \in {j \in Entries : tasks[j].calls > 0}}

\* C7: NewAgentController stores 30 seconds for a timeout of 0, 0 for a
\* negative timeout and a positive timeout unchanged, so the stored timeout
\* is never negative; every attach call is given the stored timeout.
C7_TimeoutNormalized ==
    /\ argTimeout = 0 => c.timeout = 30
    /\ argTimeout < 0 => c.timeout = 0
    /\ argTimeout > 0 => c.timeout = argTimeout
    /\ c.timeout >= 0
    /\ op = "inject" => \A r \in Requests : r.Options.Timeout = c.timeout

\* a controller built with a negative timeout has issued an attach call
\* with timeout 0
C7_Witness ==
    /\ op = "inject"
    /\ argTimeout < 0
    /\ \E r \in Requests : r.Options.Timeout = 0

\* the attach requests of the PodHelper succeed for every target
HelperWorks == \A i \in Entries : podExists[c.targets[i]]

\* every target pod has the agent container
AllAttached == \A i \in Entries : HasContainer(c.targets[i], AgentContainerName)

\* C8 as stated: with a working PodHelper and a timeout <= 0 given to
\* NewAgentController, InjectDisruptorAgent returns nil and every target pod
\* has an ephemeral container, whether or not a container reports readiness.
C8_NoWaitUpToZero ==
    (InjectReturned /\ HelperWorks /\ argTimeout <= 0) =>
        (ret = Nil /\ AllAttached)

\* C8, amended: with a working PodHelper and a timeout < 0 given to
\* NewAgentController, InjectDisruptorAgent returns nil and every target pod
\* has an ephemeral container, whether or not a container reports readiness.
C8_NoWaitNegative ==
    (InjectReturned /\ HelperWorks /\ argTimeout < 0) =>
        (ret = Nil /\ AllAttached)

\* an injection with a negative timeout has returned nil for two pods whose
\* containers never report readiness
C8_Witness ==
    /\ InjectReturned
    /\ argTimeout < 0
    /\ HelperWorks
    /\ Len(c.targets) = 2
    /\ c.targets[1] # c.targets[2]
    /\ \A p \in Pods : ~podReady[p]
    /\ ret = Nil
    /\ AllAttached

\* the container of target i is attached and never reports readiness
NeverReady(i) == podExists[c.targets[i]] /\ ~podReady[c.targets[i]]

\* C9 as stated: for a controller built with timeout > 0, when the container
\* of at least one target never reports readiness, InjectDisruptorAgent
\* returns a non-nil error.
C9_NotReadyFails ==
    (InjectReturned /\ argTimeout > 0 /\ \E i \in Entries : NeverReady(i)) =>
        ret # Nil

\* C9, amended: for a controller built with timeout > 0, when the container
\* this call attached to at least one target never reports readiness,
\* InjectDisruptorAgent returns a non-nil error, after all attach calls
\* have finished.
C9_FreshNotReadyFails ==
    (/\ InjectReturned
     /\ argTimeout > 0
     /\ \E i \in Entries : tasks[i].fresh /\ NeverReady(i)) =>
        (ret # Nil /\ \A i \in Entries : Completed(i))

\* an injection with a positive timeout has returned an error: the
\* container attached to the first target never reports readiness, the
\* attach to the second target succeeded
C9_Witness ==
    /\ InjectReturned
    /\ argTimeout > 0
    /\ Len(c.targets) = 2
    /\ tasks[1].fresh
    /\ NeverReady(1)
    /\ ~Failed(2)
    /\ ret # Nil

\* number of containers named name among the ephemeral containers cs
RECURSIVE CountContainers(_, _)
CountContainers(cs, name) ==
    IF cs = <<>> THEN 0
    ELSE (IF Head(cs).Name = name THEN 1 ELSE 0) + CountContainers(Tail(cs), name)

\* every target carried the agent container before this call
AlreadyInjected ==
    \A i \in Entries :
        HasContainer(c.targets[i], AgentContainerName) /\ ~tasks[i].fresh

\* C10: every attach request is issued with IgnoreIfExists set; an
\* InjectDisruptorAgent call on targets that already carry the agent
\* container returns nil and leaves each of them with exactly one agent
\* container.
C10_InjectIdempotent ==
    op = "inject" =>
        /\ \A r \in Requests : r.Options.IgnoreIfExists
        /\ (Returned /\ AlreadyInjected) =>
              /\ ret = Nil
              /\ \A i \in Entries :
                    CountContainers(ephemeral[c.targets[i]], AgentContainerName) = 1

\* a second injection has returned nil on two pods that carried the agent
\* container, which the first injection attached and which never got ready
C10_Witness ==
    /\ InjectReturned
    /\ calls = 2
    /\ argTimeout > 0
    /\ Len(c.targets) = 2
    /\ c.targets[1] # c.targets[2]
    /\ \A p \in Pods : ~podReady[p]
    /\ AlreadyInjected
    /\ ret = Nil

\* the visiting function that returns cmd for every target
ConstantVisitor(cmd) == [p \in Pods |-> cmd]

\* what a caller observes of a returned call that ran cmd on every target:
\* cmd was executed once per entry of the target list and nothing else was,
\* and the result is nil exactly when no execution failed
Observed(cmd) ==
    /\ \A i \in Entries : tasks[i].calls = 1 /\ tasks[i].cmd = cmd
    /\ \A p \in Pods :
          /\ Len(history[p]) = calls * Cardinality(EntriesOf(p))
          /\ \A k \in 1..Cardinality(EntriesOf(p)) :
                history[p][Len(history[p]) + 1 - k].Command = cmd
    /\ (ret = Nil) <=> (\A i \in Entries : ~Failed(i))

\* C11: ExecCommand(cmd) is a Visit with the visitor that returns cmd for
\* every target, and both are observed alike: cmd is executed once per
\* target, no other command is, and nil is returned in the same cases.
C11_ExecCommandIsConstantVisit ==
    /\ op = "exec" => \E cmd \in Commands : visitor = ConstantVisitor(cmd)
    /\ \A cmd \in Commands :
          (VisitReturned /\ visitor = ConstantVisitor(cmd)) => Observed(cmd)

\* an ExecCommand over two targets has returned an error: the command failed
\* on the first target and succeeded on the second
C11_Witness ==
    /\ Returned
    /\ op = "exec"
    /\ Len(c.targets) = 2
    /\ Failed(1)
    /\ ~Failed(2)
    /\ ret # Nil
    /\ Observed(<<"command">>)

\* the visitor failed for the target of loop entry i
VisitorFailed(i) == visitor[c.targets[i]] = <<>>

\* C12: when the visitor fails for a target, Visit returns a non-nil error,
\* issues no Exec for that target, and still executes on the other targets.
C12_VisitorFailureCounts ==
    (VisitReturned /\ \E i \in Entries : VisitorFailed(i)) =>
        /\ ret # Nil
        /\ \A i \in Entries :
              tasks[i].calls = (IF VisitorFailed(i) THEN 0 ELSE 1)

\* C13: the configuration is immutable and Targets() reads it: no step
\* changes the controller's namespace, targets or timeout, and a Targets()
\* call returns the target list given at construction, in its order, with a
\* nil error and without a PodHelper call (nothing is attached or executed
\* and no goroutine is started).
C13_ConfigurationImmutable ==
    [][ /\ c' = c
        /\ c'.targets = argTargets
        /\ (op' = "targets" /\ calls' = calls + 1) =>
              /\ out' = argTargets
              /\ ret' = Nil
              /\ UNCHANGED <<ephemeral, history, tasks>> ]_vars

\* Targets() has returned the list given at construction, a pod named twice
\* in it, after a call in which a target failed
C13_Witness ==
    /\ op = "targets"
    /\ calls = 2
    /\ Len(argTargets) = 2
    /\ argTargets[1] = argTargets[2]
    /\ out = argTargets
    /\ ret = Nil
    /\ \E i \in Entries : Failed(i)

\* the value goroutine i sends to the errors channel when its call failed
Recorded(i) ==
    IF op = "inject" THEN tasks[i].err
    ELSE Errorf(tasks[i].err, tasks[i].stderr)

\* the goroutines that have sent their error
Senders == {i \in Entries : tasks[i].pc \in {"sent", "done"} /\ Failed(i)}

\* the main goroutine stands behind wg.Wait(), before the select
BarrierPassed == pc = "loop" /\ idx = Len(c.targets) /\ wg = 0

\* C14: in InjectDisruptorAgent and in Visit the errors channel of a call has
\* the capacity of the number of targets and holds one error per goroutine
\* that sent one, so it never holds more errors than there are targets; a
\* goroutine that has an error to send finds room in the channel; and once
\* the join barrier is passed, the error of every failed goroutine is in the
\* channel.
C14_ChannelNeverBlocks ==
    op \in {"inject", "visit", "exec"} =>
        /\ errors.cap = Len(c.targets)
        /\ Len(errors.buf) <= Len(c.targets)
        /\ pc = "loop" => Len(errors.buf) = Cardinality(Senders)
        /\ \A i \in Entries :
              (tasks[i].pc = "returned" /\ Failed(i)) =>
                  Len(errors.buf) < errors.cap
        /\ BarrierPassed =>
              \A i \in Entries :
                  Failed(i) =>
                      \E k \in 1..Len(errors.buf) : errors.buf[k] = Recorded(i)

\* the barrier of a call over two targets is passed with both goroutines
\* failed and both errors in the channel, which is full
C14_Witness ==
    /\ BarrierPassed
    /\ Len(c.targets) = 2
    /\ \A i \in Entries : Failed(i)
    /\ Len(errors.buf) = 2
    /\ errors.cap = 2

\* the attach call of goroutine i was in flight when the context was
\* cancelled
Hit(i) == tasks[i].hit

CancellationError(e) == e # Nil /\ e.kind = "context canceled"

\* C15 as stated: every attach call receives the controller's context, and
\* when the caller cancels it while attach calls are in flight, those calls
\* fail and InjectDisruptorAgent returns a cancellation error, after all
\* goroutines have finished.
C15_CancelReturnsCancellation ==
    op = "inject" =>
        /\ \A r \in Requests : r.Ctx = c.ctx
        /\ (Returned /\ \E i \in Entries : Hit(i)) =>
              /\ \A i \in Entries : Hit(i) => Failed(i)
              /\ CancellationError(ret)
              /\ \A i \in Entries : tasks[i].pc = "done"

\* C15, amended: every attach call receives the controller's context, and
\* when the caller cancels it while attach calls are in flight, those calls
\* fail with a cancellation error and InjectDisruptorAgent returns, after all
\* goroutines have finished, a non-nil error: the error of one of the failed
\* attach calls of this call, which is a cancellation error unless an attach
\* call failed for another reason.
C15_CancelFailsInFlight ==
    op = "inject" =>
        /\ \A r \in Requests : r.Ctx = c.ctx
        /\ \A i \in Entries :
              (Hit(i) /\ Completed(i)) => CancellationError(tasks[i].err)
        /\ (Returned /\ \E i \in Entries : Hit(i)) =>
              /\ ret # Nil
              /\ \E j \in Entries : Failed(j) /\ ret = tasks[j].err
              /\ \A i \in Entries : tasks[i].pc = "done"
              /\ (\A j \in Entries :
                      Failed(j) => CancellationError(tasks[j].err)) =>
                    CancellationError(ret)

\* an injection over two targets has returned a cancellation error: the
\* context was cancelled while both attach calls were in flight
C15_Witness ==
    /\ InjectReturned
    /\ ctxDone
    /\ Len(c.targets) = 2
    /\ \A i \in Entries : Hit(i) /\ tasks[i].pc = "done"
    /\ CancellationError(ret)

\* C16: cancelling the context during Visit or ExecCommand stops nothing: an
\* Exec not yet issued can still be issued, an Exec in flight at the
\* cancellation ends as any other (with its own result, never with the
\* context's error), and the call returns only after one Exec per entry of
\* the target list has completed.
C16_CancelNotHonoredByExec ==
    InVisit =>
        /\ \A i \in Entries :
              /\ (ctxDone /\ tasks[i].pc = "spawned") => ENABLED ExecCall(i)
              /\ Completed(i) => ~CancellationError(tasks[i].err)
        /\ Returned =>
              /\ \A i \in Entries :
                    /\ tasks[i].calls = 1
                    /\ tasks[i].pc = "done"
              /\ ~CancellationError(ret)
              /\ (ret = Nil) <=> (\A i \in Entries : ~Failed(i))

\* a Visit over two targets has returned nil: the context was cancelled
\* while the first Exec was in flight, and both Execs completed without error
C16_Witness ==
    /\ VisitReturned
    /\ ctxDone
    /\ Len(c.targets) = 2
    /\ Hit(1)
    /\ ~Hit(2)
    /\ \A i \in Entries : tasks[i].calls = 1 /\ ~Failed(i)
    /\ ret = Nil

\* the call an error was produced in
CallOf(e) == IF "wraps" \in DOMAIN e THEN e.wraps.call ELSE e.call

\* C17: the controller keeps nothing from one call to the next.  A call
\* starts with an empty errors channel and no goroutine; Visit and
\* ExecCommand issue one Exec for every entry of the target list whether or
\* not the agent was injected into the target before and whatever the earlier
\* calls returned; and the result of a call is nil exactly when no goroutine
\* of this call failed, otherwise an error produced in this call.
C17_NoRecordOfEarlierOutcomes ==
    op \in {"inject", "visit", "exec"} =>
        /\ (pc = "loop" /\ idx = 0) =>
              /\ errors.buf = <<>>
              /\ \A i \in Entries : tasks[i] = NoTask
        /\ VisitReturned =>
              \A i \in Entries :
                  tasks[i].calls = 1 /\ tasks[i].pod = c.targets[i]
        /\ Returned =>
              /\ (ret = Nil) <=> (\A i \in Entries : ~Failed(i))
              /\ ret # Nil => CallOf(ret) = calls

\* a Visit has executed on two targets and returned nil after an injection
\* that failed for both of them (it attached their containers, which never
\* got ready within the timeout)
C17_Witness ==
    /\ VisitReturned
    /\ calls = 2
    /\ argTimeout > 0
    /\ Len(c.targets) = 2
    /\ c.targets[1] # c.targets[2]
    /\ \A i \in Entries :
          /\ HasContainer(c.targets[i], AgentContainerName)
          /\ ~podReady[c.targets[i]]
          /\ tasks[i].calls = 1
          /\ ~Failed(i)
    /\ ret = Nil

\* the stderr of an agent that refuses a command while it runs another
Rejection == "command is already in execution"

\* goroutine i's execution was rejected by the agent
Rejected(i) == Failed(i) /\ tasks[i].stderr = Rejection

C18_Overlap ==
    \E i, j \in Entries :
        /\ i # j
        /\ c.targets[i] = c.targets[j]
        /\ tasks[i].pc = "executing"
        /\ tasks[j].pc = "executing"

\* the containers injection has attached, over all pods
Attached ==
    UNION {{ephemeral[p][k] : k \in 1..Len(ephemeral[p])} : p \in Pods}

\* the executions recorded, over all pods
Executions ==
    UNION {{history[p][k] : k \in 1..Len(history[p])} : p \in Pods}

\* C19: every attach request of InjectDisruptorAgent carries the same
\* container (name xk6-agent, capability NET_ADMIN added, user 0 and group 0,
\* RunAsNonRoot false, TTY and stdin enabled) and the controller's timeout;
\* the containers attached are that container; and every Exec of Visit and
\* ExecCommand names the container xk6-agent, the name injection attaches.
C19_AgentContainerSpec ==
    /\ op = "inject" =>
          \A r \in Requests :
              /\ r.Container.Name = "xk6-agent"
              /\ r.Container.Capabilities = <<"NET_ADMIN">>
              /\ r.Container.RunAsUser = 0
              /\ r.Container.RunAsGroup = 0
              /\ r.Container.RunAsNonRoot = FALSE
              /\ r.Container.TTY = TRUE
              /\ r.Container.Stdin = TRUE
              /\ r.Options.Timeout = c.timeout
              /\ \A q \in Requests : q.Container = r.Container
    /\ \A a \in Attached : a.Name = "xk6-agent" /\ a.RunAsNonRoot = FALSE
    /\ \A e \in Executions :
          /\ e.Container = "xk6-agent"
          /\ \A a \in Attached : e.Container = a.Name

\* a command has been executed on a pod that carries the container an
\* injection attached, in the container of that name
C19_Witness ==
    /\ VisitReturned
    /\ calls = 2
    /\ Len(c.targets) = 2
    /\ \A i \in Entries :
          /\ HasContainer(c.targets[i], "xk6-agent")
          /\ Len(history[c.targets[i]]) > 0
    /\ Attached # {}
    /\ Executions # {}

\* C20: with goroutines that are scheduled and PodHelper calls that come
\* back, a call of InjectDisruptorAgent or Visit that has begun returns,
\* whatever succeeds and fails; while it runs some step of it is possible;
\* when it has returned every goroutine it started has finished; and over an
\* empty target list nothing is attached or executed and nil is returned.
C20_CallsTerminate ==
    /\ [](pc = "loop" => ENABLED CallSteps)
    /\ [](Returned =>
            /\ wg = 0
            /\ \A i \in Entries : tasks[i].pc = "done")
    /\ []((Returned /\ Len(c.targets) = 0) =>
            /\ ret = Nil
            /\ \A p \in Pods : ephemeral[p] = <<>> /\ history[p] = <<>>)
    /\ (pc = "loop") ~> (pc = "idle")

\* a second call, a Visit over two targets, has returned with one Exec
\* failed and one succeeded, and both goroutines finished
C20_Witness ==
    /\ VisitReturned
    /\ calls = 2
    /\ Len(c.targets) = 2
    /\ Failed(1)
    /\ ~Failed(2)
    /\ wg = 0
    /\ \A i \in Entries : tasks[i].pc = "done"

\* C21: Visit calls the visitor in its loop, once for every entry of the
\* target list and in the order of the list: the calls received so far are
\* the first idx targets, all of them when Visit has returned, and a
\* goroutine exists only for an entry the visitor was called for.  Every
\* Exec is issued for the pod of its entry with the command the visitor
\* returned for that pod, also when it is issued after the visitor was
\* called for later entries.
C21_VisitorOncePerTargetInOrder ==
    InVisit =>
        /\ idx <= Len(c.targets)
        /\ visited = SubSeq(c.targets, 1, idx)
        /\ Returned => visited = c.targets
        /\ \A i \in Entries :
              /\ (tasks[i].pc # "none") <=> (i <= idx)
              /\ tasks[i].calls > 0 =>
                    /\ tasks[i].req.Pod = c.targets[i]
                    /\ tasks[i].req.Command = visitor[c.targets[i]]

\* a visitor with a command of its own for each pod has been called for both
\* targets and the Exec of the second has finished, while the Exec of the
\* first is in flight with the first pod's command
C21_Witness ==
    /\ op = "visit"
    /\ pc = "loop"
    /\ Len(c.targets) = 2
    /\ c.targets[1] # c.targets[2]
    /\ visitor[c.targets[1]] # visitor[c.targets[2]]
    /\ visited = c.targets
    /\ tasks[2].pc = "done"
    /\ tasks[1].pc = "executing"
    /\ tasks[1].req.Command = visitor[c.targets[1]]

\* the visitor has been called for the second target and its Exec has
\* finished before the Exec of the first target is issued
C21_LateStart ==
    /\ op = "visit"
    /\ Len(c.targets) = 2
    /\ c.targets[1] # c.targets[2]
    /\ visitor[c.targets[1]] # visitor[c.targets[2]]
    /\ tasks[2].pc = "done"
    /\ tasks[1].pc = "spawned"

\* what BuildE2eCluster has done after it created the cluster, ran the first
\* n post-install functions of its configuration and, when failed is set,
\* saw the n-th of them fail
BuildLog(n, failed) ==
    <<[ev |-> "Create"]>>
    \o [k \in 1..n |-> [ev |-> "postInstall",
                        fn |-> build.config.PostInstall[k],
                        ok |-> (k < n \/ ~failed)]]
    \o (IF failed THEN <<[ev |-> "Delete"]>> ELSE <<>>)

BuildReturned == build.pc = "done"

\* the call returned the error of an option function or of the creation
FailedBeforeCluster ==
    build.err \in {"option failed", "failed to create cluster config",
                   "failed to create cluster"}

\* the call returned the error of a post-install function
FailedPostInstall == build.err \in PostInstalls

\* what the claim says of the call apart from the fate of the cluster
BuildOrder ==
    /\ build.pc = "options" => build.log = <<>>
    /\ build.pc = "postInstall" => build.log = BuildLog(build.i, FALSE)
    /\ (BuildReturned /\ FailedBeforeCluster) =>
          /\ build.log = <<>>
          /\ build.cluster = "nil"
    /\ (BuildReturned /\ FailedPostInstall) =>
          /\ \E n \in 1..Len(build.config.PostInstall) :
                /\ build.log = BuildLog(n, TRUE)
                /\ build.err = build.config.PostInstall[n]
          /\ build.cluster = "nil"
    /\ (BuildReturned /\ build.err = "nil") =>
          /\ build.log = BuildLog(Len(build.config.PostInstall), FALSE)
                           \o <<[ev |-> "Sleep", wait |-> build.config.Wait]>>
          /\ build.cluster = build.config.Name

\* C22 as stated: post-install functions run in configuration order after
\* the creation; at the first that fails the cluster is deleted, no later
\* one runs, the wait is skipped and its error is returned with no cluster;
\* after a failed option or creation no post-install function has run and
\* no cluster is returned.
C22_PostInstallFailureDeletesCluster ==
    /\ BuildOrder
    /\ (BuildReturned /\ FailedPostInstall) => ~build.exists

\* C22, amended: as stated, except that at the first post-install function
\* that fails BuildE2eCluster calls the cluster's Delete once and drops its
\* result: the cluster is gone only when that Delete succeeded, and a
\* cluster exists after the call only when it was created.
C22_PostInstallFailureCallsDelete ==
    /\ BuildOrder
    /\ (BuildReturned /\ FailedBeforeCluster) => ~build.exists
    /\ (BuildReturned /\ build.err = "nil") => build.exists

\* the first of two post-install functions failed: Delete was called, the
\* second function never ran and the error of the first was returned
C22_Witness ==
    /\ BuildReturned
    /\ Len(build.config.PostInstall) = 2
    /\ build.config.PostInstall[1] # build.config.PostInstall[2]
    /\ build.err = build.config.PostInstall[1]
    /\ build.log = BuildLog(1, TRUE)
    /\ build.cluster = "nil"

\* the modules whose tab-indented lines, the last line of each file
\* included, give different versions in the local go.mod and in the core's
Expected ==
    Mismatches(DependenciesAllLines(depsync.own),
               DependenciesAllLines(depsync.core))

\* C23: the go get command depsync prints lists exactly the modules that
\* have tab-indented lines in both the local go.mod and the go.mod of k6
\* core with different versions, each once, with the core's version, in
\* sorted order; nothing is printed when there is none.  Every tab-indented
\* line of the two inputs counts, the last line of a file included.
C23_GoGetListsMismatches ==
    depsync.pc = "done" =>
        LET coreDeps == DependenciesAllLines(depsync.core)
        IN  /\ Expected = {} => depsync.stdout = <<>>
            /\ Expected # {} =>
                  /\ Len(depsync.stdout) = 1
                  /\ depsync.stdout[1].cmd = "go get"
                  /\ LET args == depsync.stdout[1].args
                     IN  /\ Len(args) = Cardinality(Expected)
                         /\ {args[k] : k \in 1..Len(args)} =
                               {Sprintf(dep, coreDeps[dep]) : dep \in Expected}
                         /\ \A i, j \in 1..Len(args) :
                               i < j => StringLess(args[i], args[j])

\* the same for inputs whose last line ends with a newline
C23_TerminatedInputs ==
    (depsync.own.newline /\ depsync.core.newline) => C23_GoGetListsMismatches

====
